---- MODULE Spec2Model ----
(***************************************************************************)
(* The Jira ingestion loops of jiraiya:                                    *)
(*   cache_jira (main.py): page loop, thread pool of remap_issue tasks,    *)
(*     accumulator and the final dump to jira.json;                        *)
(*   get_all_issues_paginated (jira.py): the generator over pages.         *)
(* The Jira server is the environment: each request is answered with a     *)
(* status, a window of the source's records and a reported total.          *)
(***************************************************************************)
EXTENDS Integers, Sequences, FiniteSets, TLC

\* ---- bounds of the model ----
NumIssues == 4        \* records in the source, keys 1..NumIssues
MaxPage == 4          \* most records the server puts in one page
MaxLimit == 3         \* largest limit given to get_all_issues_paginated
MaxNodes == 3         \* nodes of the rich-text trees given to flatten_jira_text
MaxLinks == 3         \* entries of an issue's issuelinks field

\* page requests explored per run: more than any run against a source of
\* NumIssues records needs
MaxRequests == NumIssues + 2

\* ---- program constants ----
max_workers == 3      \* ThreadPoolExecutor(max_workers=3)
maxResults == 1000    \* params["maxResults"] of cache_jira

VARIABLES
  prog,          \* which entry point runs: "cache_jira" or "paginated"
  pc,            \* cache_jira: position of the main thread
  startAt,       \* params["startAt"]
  total_issues,  \* total_issues
  issues,        \* the accumulator: keys of the mapped records, in order
  data,          \* data["issues"] of the current page
  task,          \* state of each remap_issue task of the current page
  first_done,    \* the task of the last non-empty page that ended first (0: none)
  file,          \* content of jira.json
  gpc,           \* get_all_issues_paginated: position of the generator
  start_at,      \* start_at
  max_results,   \* argument max_results
  limit,         \* argument limit (0 stands for None or 0)
  yielded,       \* keys yielded so far, in order
  reqs,          \* history: the page requests issued, in order
  static,        \* history: every response so far is that of an unchanging source
  arg,           \* argument of the function called on its own (a tree, a link list)
  ret            \* <<>> before that call returns, <<its result>> after

vars == <<prog, pc, startAt, total_issues, issues, data, task, first_done, file,
          gpc, start_at, max_results, limit, yielded, reqs, static, arg, ret>>

cacheVars == <<pc, startAt, total_issues, issues, data, task, first_done, file>>
genVars == <<gpc, start_at, yielded>>
pureVars == <<arg, ret>>

Keys == 1..NumIssues
Statuses == {"ok", "auth", "transient"}

\* jira.json before the run: one record (key 0) left by an earlier run.
PriorFile == <<0>>

Min(a, b) == IF a < b THEN a ELSE b

\* ---- the source's records ----
\* issue["fields"]["description"] is non-empty
HasDescription(k) == k % 2 = 1
\* response.json()["comments"] of the issue is non-empty
HasComments(k) == (k % 4) \in {0, 3}

\* The records at positions s+1 .. s+n of the source; at most one of them
\* (position bad, 0 for none) lacks an expected field.
PageOf(s, n, bad) ==
  [i \in 1..n |-> [key |-> s + i, fields_ok |-> (i # bad)]]

RECURSIVE SelectKeys(_, _)
SelectKeys(seq, keep) ==
  IF seq = <<>> THEN <<>>
  ELSE IF keep[Head(seq)] THEN <<Head(seq)>> \o SelectKeys(Tail(seq), keep)
       ELSE SelectKeys(Tail(seq), keep)

Range(seq) == {seq[i] : i \in 1..Len(seq)}

\* ---- remap_issue ----
\* "exc": an exception leaves the task; "none": returns None; "mapped".
remap_issue_unfiltered(issue, comment_status) ==
  IF ~issue.fields_ok THEN "exc"
  ELSE IF comment_status # "ok" THEN "exc"
  ELSE "mapped"

remap_issue(issue, comment_status) ==
  IF ~issue.fields_ok THEN "exc"
  ELSE IF comment_status # "ok" THEN "exc"
  ELSE IF ~HasDescription(issue.key) /\ ~HasComments(issue.key) THEN "none"
  ELSE "mapped"

\* response.raise_for_status() raises
raises_any_but_auth(status) == status = "transient"

raise_for_status(status) == status # "ok"

Running == {i \in DOMAIN task : task[i] = "running"}
Queued == {i \in DOMAIN task : task[i] = "queued"}
Finished == {i \in DOMAIN task : task[i] \in {"mapped", "none", "exc"}}
Last(seq) == seq[Len(seq)]

\* a worker thread of the pool is free to take the next work item
WorkerUnbounded == TRUE

WorkerFree == Cardinality(Running) < max_workers

\* ---- rich-text trees ----
\* Strings are sequences of characters. A link target; its last path segment
\* is the issue key.
Url == <<"h", "/", "b", "/", "K", "1">>

\* A node without its children: a type tag, and for some a text or attrs.
NodeHeads ==
  { [type |-> "text", text |-> <<"a">>],
    [type |-> "text", text |-> <<"x">>],
    [type |-> "text"],
    [type |-> "inlineCard", attrs |-> [url |-> Url]],
    [type |-> "inlineCard"],
    [type |-> "listItem"],
    [type |-> "paragraph"],
    [type |-> "doc"] }

\* the number of nodes of a list of trees
RECURSIVE NodeCount(_)
NodeCount(nodes) ==
  IF nodes = <<>> THEN 0
  ELSE 1 + (IF "content" \in DOMAIN Head(nodes) THEN NodeCount(Head(nodes).content) ELSE 0)
         + NodeCount(Tail(nodes))

\* s.split("/")[-1]
LastSegment(s) ==
  LET slashes == {i \in DOMAIN s : s[i] = "/"}
  IN IF slashes = {} THEN s
     ELSE LET j == CHOOSE i \in slashes : \A k \in slashes : k <= i
          IN SubSeq(s, j + 1, Len(s))

KeyError == [ok |-> FALSE, out |-> <<>>]
Returns(s) == [ok |-> TRUE, out |-> s]

\* flatten_jira_text, lines 32-38: what the node adds before its children
own_text_without_space(text) ==
  IF "type" \in DOMAIN text
  THEN CASE text.type = "text" ->
              IF "text" \in DOMAIN text THEN Returns(text.text) ELSE KeyError
         [] text.type = "listItem" -> Returns(<<"-", " ">>)
         [] text.type = "inlineCard" ->
              IF "attrs" \in DOMAIN text /\ "url" \in DOMAIN text.attrs
              THEN Returns(LastSegment(text.attrs.url) \o <<" ">>)
              ELSE KeyError
         [] OTHER -> Returns(<<>>)
  ELSE Returns(<<>>)

own_text(text) ==
  IF "type" \in DOMAIN text
  THEN CASE text.type = "text" ->
              IF "text" \in DOMAIN text THEN Returns(text.text \o <<" ">>) ELSE KeyError
         [] text.type = "listItem" -> Returns(<<"-", " ">>)
         [] text.type = "inlineCard" ->
              IF "attrs" \in DOMAIN text /\ "url" \in DOMAIN text.attrs
              THEN Returns(LastSegment(text.attrs.url) \o <<" ">>)
              ELSE KeyError
         [] OTHER -> Returns(<<>>)
  ELSE Returns(<<>>)

\* flatten_jira_text: a KeyError anywhere leaves the whole call
RECURSIVE flatten_jira_text(_), flatten_content(_)
flatten_content(content) ==
  IF content = <<>> THEN Returns(<<>>)
  ELSE LET first == flatten_jira_text(Head(content))
           rest == flatten_content(Tail(content))
       IN IF first.ok /\ rest.ok THEN Returns(first.out \o rest.out) ELSE KeyError

flatten_jira_text(text) ==
  LET own == own_text(text)
  IN IF ~own.ok THEN KeyError
     ELSE IF "content" \in DOMAIN text
     THEN LET items == flatten_content(text.content)
          IN IF ~items.ok THEN KeyError
             ELSE IF "type" \notin DOMAIN text THEN KeyError
             ELSE Returns(own.out \o items.out \o
                          (IF text.type = "paragraph" THEN <<"\n">> ELSE <<>>))
     ELSE own

\* ---- issue links ----
\* A link holds the issue at its other end as outwardIssue or as inwardIssue.
Links ==
  { [outwardIssue |-> [key |-> <<"A">>]],
    [outwardIssue |-> [key |-> <<"B">>]],
    [inwardIssue |-> [key |-> <<"C">>]] }

LinkLists == UNION {[1..n -> Links] : n \in 0..MaxLinks}

IsOutward(link) == "outwardIssue" \in DOMAIN link

\* [link["outwardIssue"]["key"] for link in issuelinks if link.get("outwardIssue")]
RECURSIVE any_linked_keys(_)
any_linked_keys(issuelinks) ==
  IF issuelinks = <<>> THEN <<>>
  ELSE LET link == Head(issuelinks)
       IN <<IF IsOutward(link) THEN link.outwardIssue.key ELSE link.inwardIssue.key>>
            \o any_linked_keys(Tail(issuelinks))

RECURSIVE outward_keys(_)
outward_keys(issuelinks) ==
  IF issuelinks = <<>> THEN <<>>
  ELSE LET link == Head(issuelinks)
       IN (IF IsOutward(link) THEN <<link.outwardIssue.key>> ELSE <<>>)
            \o outward_keys(Tail(issuelinks))

\* sep.join(strings)
RECURSIVE join(_, _)
join(sep, strings) ==
  IF strings = <<>> THEN <<>>
  ELSE IF Len(strings) = 1 THEN Head(strings)
  ELSE Head(strings) \o sep \o join(sep, Tail(strings))

\* mapped["related_issues"]
related_issues(issuelinks) == join(<<",", " ">>, outward_keys(issuelinks))

Init ==
  /\ prog \in {"cache_jira", "paginated", "flatten_jira_text", "related_issues"}
  /\ arg \in (IF prog = "related_issues" THEN LinkLists ELSE {<<>>})
  /\ ret = <<>>
  /\ pc = "fetch"
  /\ startAt = 0
  /\ total_issues = 0
  /\ issues = <<>>
  /\ data = <<>>
  /\ task = <<>>
  /\ first_done = 0
  /\ file = PriorFile
  /\ gpc = "loop"
  /\ start_at = 0
  /\ max_results \in 0..(MaxPage + 1)
  /\ limit \in 0..MaxLimit
  /\ yielded = <<>>
  /\ reqs = <<>>
  /\ static = TRUE
  /\ (prog # "paginated" => max_results = 1 /\ limit = 0)

\* Where the page answered at offset o starts in the source: at o, or one
\* record off when a record was created or deleted since the last request.
WindowStarts(o) == {s \in {o - 1, o, o + 1} : 0 <= s /\ s <= NumIssues} \cup {Min(o, NumIssues)}

\* The totals a response reports: the true count, or one that has drifted.
Totals == 0..(NumIssues + 1)

\* What an unchanging source of NumIssues records answers at offset o.
IsStaticAnswer(o, s, n, total) ==
  /\ s = Min(o, NumIssues)
  /\ total = NumIssues
  /\ (n = 0 <=> o >= NumIssues)

\* ---- cache_jira: one pass of the while loop up to the executor ----
FetchPage ==
  /\ prog = "cache_jira"
  /\ pc = "fetch"
  /\ Len(reqs) < MaxRequests
  /\ \E status \in Statuses :
       IF raise_for_status(status)
       THEN /\ pc' = "error"
            /\ reqs' = Append(reqs, [offset |-> startAt, first |-> 0, n |-> 0,
                                     status |-> status])
            /\ static' = FALSE
            /\ UNCHANGED <<startAt, total_issues, issues, data, task, first_done, file>>
       ELSE \E s \in WindowStarts(startAt) :
            \E n \in 0..Min(Min(MaxPage, maxResults), NumIssues - s) :
            \E bad \in 0..n :
            \E total \in Totals :
              /\ reqs' = Append(reqs, [offset |-> startAt, first |-> s, n |-> n,
                                       status |-> status])
              /\ static' = (static /\ IsStaticAnswer(startAt, s, n, total))
              /\ data' = PageOf(s, n, bad)
              /\ IF n = 0
                 THEN /\ pc' = "persist"
                      /\ task' = <<>>
                      /\ UNCHANGED <<total_issues, first_done>>
                 ELSE /\ pc' = "enrich"
                      /\ total_issues' = total
                      /\ task' = [i \in 1..n |-> "queued"]
                      /\ first_done' = 0
              /\ UNCHANGED <<startAt, issues, file>>
  /\ UNCHANGED <<prog, max_results, limit>>
  /\ UNCHANGED genVars
  /\ UNCHANGED pureVars

\* A pool thread takes the next work item of executor.map, in submission order.
TaskStart ==
  /\ pc \in {"enrich", "failing"}
  /\ Queued # {}
  /\ WorkerFree
  /\ LET i == CHOOSE q \in Queued : \A r \in Queued : q <= r
     IN task' = [task EXCEPT ![i] = "running"]
  /\ UNCHANGED <<prog, pc, startAt, total_issues, issues, data, file,
                 max_results, limit, reqs, static>>
  /\ UNCHANGED genVars
  /\ UNCHANGED first_done
  /\ UNCHANGED pureVars

\* remap_issue(data[i]) runs to its end; its comment request is answered.
TaskFinish ==
  /\ pc \in {"enrich", "failing"}
  /\ \E i \in Running :
     \E comment_status \in Statuses :
       /\ task' = [task EXCEPT ![i] = remap_issue(data[i], comment_status)]
       /\ first_done' = (IF first_done = 0 THEN i ELSE first_done)
  /\ UNCHANGED <<prog, pc, startAt, total_issues, issues, data, file,
                 max_results, limit, reqs, static>>
  /\ UNCHANGED genVars
  /\ UNCHANGED pureVars

\* params["startAt"] += len(data["issues"])
advance_by_page_size(o, n) == o + maxResults

advance_stuck(o, n) == o

advance(o, n) == o + n

\* the order in which list(executor.map(...)) gives the results of n tasks
\* of which task first ended first
completion_order(n, first) ==
  IF first = 0 THEN [i \in 1..n |-> i]
  ELSE <<first>> \o [i \in 1..(n - 1) |-> IF i < first THEN i ELSE i + 1]

map_order(n, first) == [i \in 1..n |-> i]

\* list(executor.map(...)) has returned: every task has given its result
FirstResultIn == task[1] \in {"mapped", "none"}

AllResultsIn == \A i \in DOMAIN task : task[i] \in {"mapped", "none"}

\* list(executor.map(...)) has every result; the with block ends; lines 132-134.
Join ==
  /\ pc = "enrich"
  /\ AllResultsIn
  /\ LET remapped_issues ==
           SelectKeys(map_order(Len(data), first_done),
                      [i \in 1..Len(data) |-> task[i] = "mapped"])
     IN issues' = issues \o [j \in 1..Len(remapped_issues) |-> data[remapped_issues[j]].key]
  /\ startAt' = advance(startAt, Len(data))
  /\ pc' = IF startAt' <= total_issues THEN "fetch" ELSE "persist"
  /\ UNCHANGED <<prog, total_issues, data, task, file,
                 max_results, limit, reqs, static>>
  /\ UNCHANGED genVars
  /\ UNCHANGED first_done
  /\ UNCHANGED pureVars

\* list(executor.map(...)) reaches, in order, a result that is an exception:
\* it is re-raised and the pending futures are cancelled.
Raise ==
  /\ pc = "enrich"
  /\ \E j \in DOMAIN task :
       /\ task[j] = "exc"
       /\ \A i \in 1..(j - 1) : task[i] \in {"mapped", "none"}
  /\ task' = [i \in DOMAIN task |-> IF task[i] = "queued" THEN "cancelled" ELSE task[i]]
  /\ pc' = "failing"
  /\ UNCHANGED <<prog, startAt, total_issues, issues, data, file,
                 max_results, limit, reqs, static>>
  /\ UNCHANGED genVars
  /\ UNCHANGED first_done
  /\ UNCHANGED pureVars

\* The with block's shutdown(wait=True) has joined the running tasks; the
\* exception leaves cache_jira.
Abort ==
  /\ pc = "failing"
  /\ Running = {}
  /\ pc' = "error"
  /\ UNCHANGED <<prog, startAt, total_issues, issues, data, task, file,
                 max_results, limit, reqs, static>>
  /\ UNCHANGED genVars
  /\ UNCHANGED first_done
  /\ UNCHANGED pureVars

\* what a file holds once open(..., "w") has opened it
open_a(old) == old

open_w(old) == <<>>

\* open("jira.json", "w") truncates the file
OpenFile ==
  /\ prog = "cache_jira"
  /\ pc = "persist"
  /\ file' = open_w(file)
  /\ pc' = "writing"
  /\ UNCHANGED <<prog, startAt, total_issues, issues, data, task,
                 max_results, limit, reqs, static>>
  /\ UNCHANGED genVars
  /\ UNCHANGED first_done
  /\ UNCHANGED pureVars

\* what the file holds once json.dump(issues, f) has written into it
dump(old, new) == old \o new

\* json.dump(issues, f) and the close of the file
Persist ==
  /\ prog = "cache_jira"
  /\ pc = "writing"
  /\ file' = dump(file, issues)
  /\ pc' = "done"
  /\ UNCHANGED <<prog, startAt, total_issues, issues, data, task,
                 max_results, limit, reqs, static>>
  /\ UNCHANGED genVars
  /\ UNCHANGED first_done
  /\ UNCHANGED pureVars

Prefixes(seq) == {SubSeq(seq, 1, m) : m \in 0..Len(seq)}

\* The process is interrupted (KeyboardInterrupt, kill) while cache_jira runs;
\* inside the dump, whatever json.dump has written so far stays in the file.
\* The page in hand and the pool's tasks go with the process.
Interrupt ==
  /\ prog = "cache_jira"
  /\ pc \in {"fetch", "enrich", "failing", "persist", "writing"}
  /\ pc' = "interrupted"
  /\ file' \in (IF pc = "writing" THEN Prefixes(dump(file, issues)) ELSE {file})
  /\ data' = <<>>
  /\ task' = <<>>
  /\ first_done' = 0
  /\ UNCHANGED <<prog, startAt, total_issues, issues,
                 max_results, limit, reqs, static>>
  /\ UNCHANGED genVars
  /\ UNCHANGED pureVars

\* ---- get_all_issues_paginated: one pass of the while loop ----
next_start_at_stuck(o, size) == o

next_start_at(o, size) == o + size

stop_ignoring_none(empty, lim, o) == empty \/ o > lim

stop_only_when_empty(empty, lim, o) == empty

stop_at_limit(empty, lim, o) == empty \/ (lim # 0 /\ o >= lim)

stop(empty, lim, o) == empty \/ (lim # 0 /\ o > lim)

GenStep ==
  /\ prog = "paginated"
  /\ gpc = "loop"
  /\ Len(reqs) < MaxRequests
  /\ \E status \in Statuses :
       IF status # "ok"
       THEN /\ gpc' = "error"
            /\ reqs' = Append(reqs, [offset |-> start_at, first |-> 0, n |-> 0,
                                     status |-> status])
            /\ static' = FALSE
            /\ UNCHANGED <<start_at, yielded>>
       ELSE \E s \in WindowStarts(start_at) :
            \E n \in 0..Min(Min(MaxPage, max_results), NumIssues - s) :
            \E total \in Totals :
              /\ reqs' = Append(reqs, [offset |-> start_at, first |-> s, n |-> n,
                                       status |-> status])
              /\ static' = (static /\ IsStaticAnswer(start_at, s, n, total))
              /\ start_at' = next_start_at(start_at, max_results)
              /\ IF stop(n = 0, limit, start_at')
                 THEN /\ gpc' = "done"
                      /\ UNCHANGED yielded
                 ELSE /\ gpc' = "loop"
                      /\ yielded' = yielded \o [i \in 1..n |-> s + i]
  /\ UNCHANGED <<prog, max_results, limit>>
  /\ UNCHANGED cacheVars
  /\ UNCHANGED pureVars

\* ---- flatten_jira_text called on a tree ----
\* The tree is put together first, as a list of trees that ends as one tree
\* of at most MaxNodes nodes: a node with no content field is added ...
BuildLeaf ==
  /\ prog = "flatten_jira_text"
  /\ ret = <<>>
  /\ NodeCount(arg) + (IF arg = <<>> THEN 1 ELSE 2) <= MaxNodes
  /\ \E h \in NodeHeads : arg' = Append(arg, h)
  /\ UNCHANGED <<prog, max_results, limit, reqs, static, ret>>
  /\ UNCHANGED cacheVars
  /\ UNCHANGED genVars

\* ... or the last k trees become the content list of a new node.
BuildNode ==
  /\ prog = "flatten_jira_text"
  /\ ret = <<>>
  /\ NodeCount(arg) < MaxNodes
  /\ \E h \in NodeHeads :
     \E k \in 0..Len(arg) :
       /\ (k = Len(arg) \/ NodeCount(arg) + 2 <= MaxNodes)
       /\ arg' = Append(SubSeq(arg, 1, Len(arg) - k),
                        h @@ [content |-> SubSeq(arg, Len(arg) - k + 1, Len(arg))])
  /\ UNCHANGED <<prog, max_results, limit, reqs, static, ret>>
  /\ UNCHANGED cacheVars
  /\ UNCHANGED genVars

CallFlatten ==
  /\ prog = "flatten_jira_text"
  /\ ret = <<>>
  /\ Len(arg) = 1
  /\ ret' = <<flatten_jira_text(arg[1])>>
  /\ UNCHANGED <<prog, max_results, limit, reqs, static, arg>>
  /\ UNCHANGED cacheVars
  /\ UNCHANGED genVars

\* ---- the related_issues expression of remap_issue on a link list ----
CallRelated ==
  /\ prog = "related_issues"
  /\ ret = <<>>
  /\ ret' = <<related_issues(arg)>>
  /\ UNCHANGED <<prog, max_results, limit, reqs, static, arg>>
  /\ UNCHANGED cacheVars
  /\ UNCHANGED genVars

\* a step of cache_jira itself
CacheStep ==
  FetchPage \/ TaskStart \/ TaskFinish \/ Join \/ Raise \/ Abort \/ OpenFile \/ Persist

Next ==
  \/ BuildLeaf
  \/ BuildNode
  \/ CallFlatten
  \/ CallRelated
  \/ FetchPage
  \/ TaskStart
  \/ TaskFinish
  \/ Join
  \/ Raise
  \/ Abort
  \/ OpenFile
  \/ Persist
  \/ Interrupt
  \/ GenStep

Spec == Init /\ [][Next]_vars

\* ======================= the claims =======================

IsEmptyRecord(k) == ~HasDescription(k) /\ ~HasComments(k)
Fetched(k) == \E i \in DOMAIN reqs : reqs[i].first < k /\ k <= reqs[i].first + reqs[i].n
Count(seq, k) == Cardinality({i \in DOMAIN seq : seq[i] = k})
RECURSIVE Returned(_)
Returned(m) == IF m = 0 THEN 0 ELSE Returned(m - 1) + reqs[m].n

\* C1 (as claimed): a record whose enrichment fails is dropped alone: the run
\* does not end in an error because of it, and once the run has ended every
\* sibling of its page that was mapped is in the persisted output.
C1_RecordFailureIsolated ==
  \A i, j \in DOMAIN task :
    (prog = "cache_jira" /\ pc \in {"done", "error"}
       /\ task[j] = "exc" /\ task[i] = "mapped")
      => (pc = "done" /\ data[i].key \in Range(file))

\* C2: a record with an empty description and no comments yields no
\* normalized record, and neither the accumulator nor jira.json holds its key.
C2_EmptyRecordNotEmitted ==
  /\ \A i \in Finished :
       (data[i].fields_ok /\ IsEmptyRecord(data[i].key)) => task[i] # "mapped"
  /\ \A k \in Keys :
       IsEmptyRecord(k) => k \notin Range(issues) /\ k \notin Range(file)

C2_Witness ==
  /\ pc = "done"
  /\ \E k \in Keys : IsEmptyRecord(k) /\ Fetched(k)
  /\ \E k \in Keys : ~IsEmptyRecord(k) /\ k \in Range(file)

\* C3 (as claimed): get_all_issues_paginated requests offset 0 first, and each
\* later offset is the previous offset plus the number of records the previous
\* page returned.
C3_OffsetAdvancesByReturned ==
  prog = "paginated" =>
    /\ (reqs # <<>> => reqs[1].offset = 0)
    /\ \A i \in 1..(Len(reqs) - 1) : reqs[i + 1].offset = reqs[i].offset + reqs[i].n

\* C4: in both page loops (the generator with max_results >= 1) no request
\* follows a page with an empty record list, and the offsets requested in a
\* run are strictly increasing.
C4_StopsAtEmptyPageOffsetsIncrease ==
  (prog = "paginated" => max_results >= 1) =>
    /\ \A i \in 1..(Len(reqs) - 1) : ~(reqs[i].status = "ok" /\ reqs[i].n = 0)
    /\ \A i, j \in DOMAIN reqs : i < j => reqs[i].offset < reqs[j].offset
    /\ (reqs # <<>> /\ Last(reqs).status = "ok" /\ Last(reqs).n = 0) =>
         /\ (prog = "cache_jira" => pc \in {"persist", "writing", "done", "interrupted"})
         /\ (prog = "paginated" => gpc = "done")

C4_Witness ==
  /\ prog = "paginated"
  /\ max_results >= 1
  /\ Len(reqs) = 3
  /\ Last(reqs).status = "ok"
  /\ Last(reqs).n = 0

\* C5 (as claimed): only an empty page ends the page loop of cache_jira,
\* whatever totals the responses reported.
C5_OnlyEmptyPageEndsLoop ==
  (prog = "cache_jira" /\ pc \in {"persist", "done"}) =>
    (reqs # <<>> /\ Last(reqs).n = 0)

\* C6: get_all_issues_paginated has stopped exactly when the last page was
\* empty or the running offset exceeds a given limit; with no limit it stops
\* only at an empty page; the page that stops it is not yielded.
C6_GeneratorStopConditions ==
  (prog = "paginated" /\ reqs # <<>> /\ gpc # "error") =>
    /\ (gpc = "done") <=> (Last(reqs).n = 0 \/ (limit # 0 /\ start_at > limit))
    /\ (gpc = "done" /\ limit = 0) => Last(reqs).n = 0
    /\ Len(yielded) = IF gpc = "done" THEN Returned(Len(reqs) - 1)
                      ELSE Returned(Len(reqs))

C6_Witness ==
  /\ prog = "paginated"
  /\ gpc = "done"
  /\ limit # 0
  /\ Len(reqs) >= 2
  /\ Last(reqs).n > 0
  /\ yielded # <<>>

\* C7: against an unchanging source, a completed cache_jira run persists
\* exactly one record for each source record that has a description or a
\* comment, and none for any other key.
C7_StaticSourceExactOutput ==
  (prog = "cache_jira" /\ pc = "done" /\ static) =>
    /\ Range(file) \subseteq Keys
    /\ \A k \in Keys : Count(file, k) = IF IsEmptyRecord(k) THEN 0 ELSE 1

C7_Witness ==
  /\ prog = "cache_jira"
  /\ pc = "done"
  /\ static
  /\ Len(reqs) = 3
  /\ Len(file) >= 2

\* C8: at most max_workers remap_issue tasks are in flight at any instant.
C8_InFlightWithinPoolWidth ==
  Cardinality(Running) <= max_workers

C8_Witness ==
  /\ Cardinality(Running) = max_workers
  /\ Queued # {}

\* C9: a search request of cache_jira rejected for authentication ends the
\* run with an error: that request is the last one and was issued once, no
\* task is queued or running, and jira.json is untouched.
C9_AuthFailureAbortsRun ==
  (prog = "cache_jira" /\ \E i \in DOMAIN reqs : reqs[i].status = "auth") =>
    /\ Last(reqs).status = "auth"
    /\ Cardinality({i \in DOMAIN reqs : reqs[i].offset = Last(reqs).offset}) = 1
    /\ pc = "error"
    /\ Running = {} /\ Queued = {}
    /\ file = PriorFile

C9_Witness ==
  /\ prog = "cache_jira"
  /\ Len(reqs) >= 2
  /\ Last(reqs).status = "auth"
  /\ issues # <<>>

\* C10 (as claimed): a page request that failed transiently is retried at the
\* same offset, and the run ends in an error only after 3 attempts.
C10_TransientFailureRetried ==
  ((pc = "error" \/ gpc = "error") /\ reqs # <<>> /\ Last(reqs).status = "transient") =>
    Cardinality({i \in DOMAIN reqs : reqs[i].offset = Last(reqs).offset
                                     /\ reqs[i].status = "transient"}) = 3

\* The records a run has collected from the pages it has joined, as the
\* responses alone determine them: each page's non-empty records, in order.
RECURSIVE Collected(_)
Collected(m) ==
  IF m = 0 THEN <<>>
  ELSE Collected(m - 1) \o
       SelectKeys([i \in 1..reqs[m].n |-> reqs[m].first + i],
                  [k \in Keys |-> ~IsEmptyRecord(k)])

\* C11 (as claimed): jira.json is written only once pagination and enrichment
\* have ended, and a run that is interrupted or aborts leaves it exactly as it
\* was before the run.
C11_NoPartialWrite ==
  prog = "cache_jira" =>
    /\ (pc \in {"fetch", "enrich", "failing", "persist"} => file = PriorFile)
    /\ (pc \in {"error", "interrupted"} => file = PriorFile)

\* C12: after a completed run jira.json holds exactly the records that run
\* collected, which the server's responses determine, and nothing of its
\* earlier content.
C12_CompletedRunReplacesFile ==
  (prog = "cache_jira" /\ pc = "done") =>
    /\ file = issues
    /\ file = Collected(Len(reqs))
    /\ \A i \in DOMAIN PriorFile : PriorFile[i] \notin Range(file)

C12_Witness ==
  /\ prog = "cache_jira"
  /\ pc = "done"
  /\ Len(reqs) >= 2
  /\ file # <<>>

\* ---- the flattening the claims describe ----
Children(node) == IF "content" \in DOMAIN node THEN node.content ELSE <<>>

\* every text node has its payload and every inlineCard its URL
RECURSIVE HasPayloads(_)
HasPayloads(node) ==
  /\ (node.type = "text" => "text" \in DOMAIN node)
  /\ (node.type = "inlineCard" => "attrs" \in DOMAIN node)
  /\ \A i \in DOMAIN Children(node) : HasPayloads(Children(node)[i])

\* the last path segment of a URL: what follows its last "/"
RECURSIVE FinalSegment(_)
FinalSegment(url) ==
  IF url = <<>> \/ Last(url) = "/" THEN <<>>
  ELSE FinalSegment(SubSeq(url, 1, Len(url) - 1)) \o <<Last(url)>>

DirectText(node) ==
  CASE node.type = "text" -> node.text \o <<" ">>
    [] node.type = "listItem" -> <<"-", " ">>
    [] node.type = "inlineCard" -> FinalSegment(node.attrs.url) \o <<" ">>
    [] OTHER -> <<>>

RECURSIVE ClaimedText(_), ClaimedTexts(_)
ClaimedTexts(nodes) ==
  IF nodes = <<>> THEN <<>> ELSE ClaimedText(Head(nodes)) \o ClaimedTexts(Tail(nodes))

\* as C13 words it: a paragraph gives its children's text, then a newline
ClaimedText(node) ==
  DirectText(node) \o ClaimedTexts(Children(node))
    \o (IF node.type = "paragraph" THEN <<"\n">> ELSE <<>>)

RECURSIVE AmendedText(_), AmendedTexts(_)
AmendedTexts(nodes) ==
  IF nodes = <<>> THEN <<>> ELSE AmendedText(Head(nodes)) \o AmendedTexts(Tail(nodes))

\* the newline only for a paragraph that has a content list
AmendedText(node) ==
  DirectText(node) \o AmendedTexts(Children(node))
    \o (IF node.type = "paragraph" /\ "content" \in DOMAIN node THEN <<"\n">> ELSE <<>>)

Flattened == prog = "flatten_jira_text" /\ ret # <<>>

C14_FlattenTotal ==
  Flattened => ret[1].ok

\* the positions of the links that have an outward issue, and the j-th of them
OutwardAt(links) == {i \in DOMAIN links : IsOutward(links[i])}
NthOutward(links, j) ==
  CHOOSE i \in OutwardAt(links) : Cardinality({h \in OutwardAt(links) : h <= i}) = j

\* C15: related_issues is the keys of exactly the links that have an outward
\* issue, in the order of the links, joined by ", "; it is the empty string
\* when no link has one.
C15_RelatedIssuesOutwardInOrder ==
  (prog = "related_issues" /\ ret # <<>>) =>
    LET m == Cardinality(OutwardAt(arg))
        out == ret[1]
    IN /\ Len(out) = IF m = 0 THEN 0 ELSE 3 * m - 2
       /\ \A j \in 1..m : <<out[3 * j - 2]>> = arg[NthOutward(arg, j)].outwardIssue.key
       /\ \A j \in 1..(m - 1) : out[3 * j - 1] = "," /\ out[3 * j] = " "

C15_Witness ==
  /\ prog = "related_issues"
  /\ arg = << [outwardIssue |-> [key |-> <<"B">>]],
              [inwardIssue |-> [key |-> <<"C">>]],
              [outwardIssue |-> [key |-> <<"A">>]] >>
  /\ ret = << <<"B", ",", " ", "A">> >>

\* the pages whose records the page loop has passed (startAt is beyond them)
JoinedPages ==
  Cardinality({i \in DOMAIN reqs : reqs[i].n > 0 /\ reqs[i].offset < startAt})

\* C16: no enrichment task is queued or running while the main thread is
\* outside the executor block (so none overlaps a page request or the tasks
\* of another page), and the accumulator holds the records of exactly the
\* pages that have been joined: nothing of the page whose tasks are running.
C16_JoinBarrierAtPageBoundary ==
  prog = "cache_jira" =>
    /\ (pc \notin {"enrich", "failing", "interrupted"} => Running = {} /\ Queued = {})
    /\ (pc \in {"enrich", "failing"} => JoinedPages = Len(reqs) - 1)
    /\ (pc \in {"fetch", "persist", "writing", "done"} =>
          JoinedPages = Cardinality({i \in DOMAIN reqs : reqs[i].n > 0}))
    /\ Len(issues) = Len(Collected(JoinedPages))

C16_Witness ==
  /\ prog = "cache_jira"
  /\ pc = "enrich"
  /\ Len(reqs) = 2
  /\ issues # <<>>
  /\ Running # {}
  /\ Finished # {}

\* every request at or past the end of the source was answered with no record
FiniteSource ==
  \A i \in DOMAIN reqs :
    (reqs[i].status = "ok" /\ reqs[i].offset >= NumIssues) => reqs[i].n = 0

\* C17: against a finite source (the generator with max_results >= 1) a run
\* issues at most NumIssues + 1 page requests and is never stuck before its
\* loop has ended; the loop of cache_jira ends at its persist step unless a
\* request or a task failed or the run was interrupted.
C17_PageLoopsTerminate ==
  (FiniteSource /\ (prog = "paginated" => max_results >= 1)) =>
    /\ Len(reqs) <= NumIssues + 1
    /\ (prog = "cache_jira" =>
          /\ (pc \in {"done", "error", "interrupted"} \/ ENABLED CacheStep)
          /\ (pc = "error" =>
                (Last(reqs).status # "ok" \/ \E i \in DOMAIN task : task[i] = "exc")))
    /\ (prog = "paginated" => (gpc \in {"done", "error"} \/ ENABLED GenStep))

C17_Witness ==
  /\ prog = "cache_jira"
  /\ FiniteSource
  /\ Len(reqs) = NumIssues + 1
  /\ pc = "done"

\* C18: with a positive limit (the server returns at most max_results records
\* per page) the records yielded over a run never number more than limit.
C18_YieldedWithinLimit ==
  (prog = "paginated" /\ limit > 0) =>
    /\ \A i \in DOMAIN reqs : reqs[i].n <= max_results
    /\ Len(yielded) <= limit

C18_Witness ==
  /\ prog = "paginated"
  /\ limit >= 2
  /\ Len(yielded) = limit
  /\ gpc = "done"

\* the records of the pages fetched so far that satisfy keep, in order
RECURSIVE PagesWhere(_, _)
PagesWhere(m, keep) ==
  IF m = 0 THEN <<>>
  ELSE PagesWhere(m - 1, keep) \o
       (IF keep[m] THEN [i \in 1..reqs[m].n |-> reqs[m].first + i] ELSE <<>>)

\* C19 (as claimed): every record of every page fetched at an offset below
\* the limit (of every page when there is no limit) is yielded.
C19_PagesBelowLimitYielded ==
  prog = "paginated" =>
    yielded = PagesWhere(Len(reqs),
                [i \in DOMAIN reqs |-> limit = 0 \/ reqs[i].offset < limit])

\* C19 (amended): the records yielded are those of the pages fetched at an
\* offset o with o + max_results <= limit (of every page when there is no
\* limit); a page that starts below the limit and would end past it is
\* fetched and not yielded.
C19_PagesWithinLimitYielded ==
  prog = "paginated" =>
    yielded = PagesWhere(Len(reqs),
                [i \in DOMAIN reqs |-> limit = 0 \/ reqs[i].offset + max_results <= limit])

C19_Witness ==
  /\ prog = "paginated"
  /\ gpc = "done"
  /\ Last(reqs).n > 0
  /\ Last(reqs).offset < limit
  /\ Last(reqs).offset > 0
  /\ Len(yielded) < Returned(Len(reqs))

\* C20: the accumulator, and the file of a completed run, hold the mapped
\* records in source order: page after page, each page in the order it
\* listed them, in whatever order the tasks ended.
C20_OutputInSourceOrder ==
  prog = "cache_jira" =>
    /\ issues = Collected(JoinedPages)
    /\ (pc = "done" => file = issues)

C20_Witness ==
  /\ prog = "cache_jira"
  /\ pc = "done"
  /\ data = <<>>
  /\ Len(reqs) = 2
  /\ Len(file) >= 2
  /\ file[1] < file[2]
  /\ \E a, b \in 1..reqs[1].n :
       /\ a < b
       /\ reqs[1].first + a = file[1]
       /\ reqs[1].first + b = file[2]
       /\ first_done = b

====
